---------------------------- MODULE Spec2Model ----------------------------
(***************************************************************************)
(* A model of PersistentContextManager (src/src/context-manager.ts): the   *)
(* context-directory store (copyContext, getContextSize and their private  *)
(* helpers) over a small file system, and the driver lifecycle (initialize,*)
(* cleanup, createBaseContext, useExistingContext) over browser handles.   *)
(***************************************************************************)
EXTENDS Integers, Sequences, FiniteSets, TLC

VARIABLES
    fs,        \* the file system: a function from the existing paths to nodes
    browser,   \* PersistentContextManager.browser: 0 (null) or a handle id
    handles,   \* every browser / persistent context launched so far, by id
    copies,    \* the number of copyContext calls made so far
    last       \* the outcome of the last call made on the manager

vars == <<fs, browser, handles, copies, last>>

----------------------------------------------------------------------------
(* Bounds of the model.                                                    *)

\* The longest path (in components) the file system accepts: longer paths
\* fail with ENAMETOOLONG, as PATH_MAX makes them.
PathMax == 4

\* The number of browsers / persistent contexts one run may launch.
MaxLaunches == 5

\* The number of copyContext calls of one run.
MaxCopies == 2

----------------------------------------------------------------------------
(* The file system.  A path is a sequence of names below the working       *)
(* directory <<>>; a node is a directory, a regular file with its bytes,   *)
(* or a dangling symbolic link.  r / w are the owner's read and write      *)
(* permission on the node.                                                 *)

\* The order in which readdir lists the names of a directory (it depends on
\* the file system; both directions are tried).
NameOrder == <<"a.txt", "b.txt", "base", "lock", "sess", "sub">>

Reverse(s) == [i \in 1..Len(s) |-> s[Len(s) + 1 - i]]

DirOrders == {NameOrder, Reverse(NameOrder)}

Dir(r, w) == [kind |-> "dir", data |-> <<>>, r |-> r, w |-> w]

File(data, w) == [kind |-> "file", data |-> data, r |-> TRUE, w |-> w]

Link == [kind |-> "link", data |-> <<>>, r |-> TRUE, w |-> TRUE]

Bytes(n, b) == [i \in 1..n |-> b]

Parent(p) == SubSeq(p, 1, Len(p) - 1)

IsPrefix(p, q) == Len(p) <= Len(q) /\ SubSeq(q, 1, Len(p)) = p

Under(p, q) == IsPrefix(p, q) /\ p # q

Exists(f, p) == p \in DOMAIN f

IsDir(f, p) == Exists(f, p) /\ f[p].kind = "dir"

Children(f, p) == {q \in DOMAIN f : Len(q) = Len(p) + 1 /\ IsPrefix(p, q)}

\* Every existing path hangs below an existing directory.
WellFormed(f) ==
    /\ IsDir(f, <<>>)
    /\ \A p \in DOMAIN f : p # <<>> => IsDir(f, Parent(p))

Restrict(f, S) == [p \in S |-> f[p]]

Put(f, p, n) == [q \in DOMAIN f \cup {p} |-> IF q = p THEN n ELSE f[q]]

\* The tree below p, with paths relative to p.
SubTree(f, p) ==
    LET S == {q \in DOMAIN f : Under(p, q)}
    IN  [r \in {SubSeq(q, Len(p) + 1, Len(q)) : q \in S} |-> f[p \o r]]

----------------------------------------------------------------------------
(* fs.rm(path, {recursive: true, force: true}).  An entry goes when its    *)
(* parent is writable and, for a directory, everything below it goes, which*)
(* needs every non-empty directory below to be readable and writable.  The *)
(* entries are removed independently of one another, so what can go does   *)
(* go; the call raises if the path itself is still there.                  *)

Gone(f, q) ==
    /\ f[Parent(q)].w
    /\ \A d \in DOMAIN f : Under(q, d) => f[Parent(d)].r /\ f[Parent(d)].w

Attempted(f, p, q) ==
    \A a \in DOMAIN f : (IsPrefix(p, a) /\ Under(a, q)) => f[a].r

Rm(f, p) ==
    IF ~Exists(f, p) \/ p = <<>>
    THEN [fs |-> f, ok |-> Exists(f, p) = FALSE]
    ELSE LET removed == {q \in DOMAIN f :
                            IsPrefix(p, q) /\ Attempted(f, p, q) /\ Gone(f, q)}
         IN  [fs |-> Restrict(f, DOMAIN f \ removed), ok |-> p \in removed]

----------------------------------------------------------------------------
(* ensureDirectory(path): fs.access, and fs.mkdir({recursive: true}) when  *)
(* the access raises.  access follows a link, so a dangling one raises and *)
(* the mkdir that follows fails on the existing entry.                     *)

\* The longest existing prefix of p.
Anchor(f, p) ==
    LET n == CHOOSE k \in 0..Len(p) :
                 /\ Exists(f, SubSeq(p, 1, k))
                 /\ \A j \in (k + 1)..Len(p) : ~Exists(f, SubSeq(p, 1, j))
    IN  SubSeq(p, 1, n)

Mkdir(f, p) ==
    LET a == Anchor(f, p)
    IN  IF Len(p) > PathMax \/ a = p \/ f[a].kind # "dir" \/ ~f[a].w
        THEN [fs |-> f, ok |-> FALSE]
        ELSE [fs |-> [q \in DOMAIN f \cup {SubSeq(p, 1, k) : k \in (Len(a) + 1)..Len(p)}
                         |-> IF q \in DOMAIN f THEN f[q] ELSE Dir(TRUE, TRUE)],
              ok |-> TRUE]

Access(f, p) == Len(p) <= PathMax /\ Exists(f, p) /\ f[p].kind # "link"

EnsureDirectory(f, path) ==
    IF Access(f, path) THEN [fs |-> f, ok |-> TRUE] ELSE Mkdir(f, path)

----------------------------------------------------------------------------
(* fs.copyFile(src, dest): the bytes and the mode of src replace dest.     *)

CopyFile(f, src, dest) ==
    LET readable == Exists(f, src) /\ f[src].kind = "file" /\ f[src].r
        writable ==
            /\ Len(dest) <= PathMax
            /\ IF Exists(f, dest)
               THEN f[dest].kind = "file" /\ f[dest].w
               ELSE IsDir(f, Parent(dest)) /\ f[Parent(dest)].w
    IN  IF readable /\ writable
        THEN [fs |-> Put(f, dest, f[src]), ok |-> TRUE]
        ELSE [fs |-> f, ok |-> FALSE]

----------------------------------------------------------------------------
(* fs.readdir(path, {withFileTypes: true}): the entries of a readable      *)
(* directory, each with the type it has when the directory is read.        *)

CanReadDir(f, p) == IsDir(f, p) /\ f[p].r

ReadDir(f, p, ord) ==
    LET names == SelectSeq(ord, LAMBDA n : Exists(f, Append(p, n)))
    IN  [i \in 1..Len(names) |->
            [name |-> names[i], isDirectory |-> f[Append(p, names[i])].kind = "dir"]]

----------------------------------------------------------------------------
(* copyDirectory(source, target): one readdir of source, then its entries  *)
(* in order; the first failure ends the copy and leaves what was copied.   *)
(* `visited` lists the source paths the loops took up, in order.           *)

RECURSIVE CopyDirectory(_, _, _, _), CopyEntries(_, _, _, _, _)

CopyEntries(f, source, target, entries, ord) ==
    IF entries = <<>>
    THEN [fs |-> f, ok |-> TRUE, visited |-> <<>>]
    ELSE LET entry == Head(entries)
             sourcePath == Append(source, entry.name)
             targetPath == Append(target, entry.name)
             one == IF entry.isDirectory
                    THEN LET made == EnsureDirectory(f, targetPath)
                         IN  IF made.ok
                             THEN CopyDirectory(made.fs, sourcePath, targetPath, ord)
                             ELSE [fs |-> made.fs, ok |-> FALSE, visited |-> <<>>]
                    ELSE LET copied == CopyFile(f, sourcePath, targetPath)
                         IN  [fs |-> copied.fs, ok |-> copied.ok, visited |-> <<>>]
             rest == CopyEntries(one.fs, source, target, Tail(entries), ord)
         IN  IF one.ok
             THEN [fs |-> rest.fs, ok |-> rest.ok,
                   visited |-> <<sourcePath>> \o one.visited \o rest.visited]
             ELSE [fs |-> one.fs, ok |-> FALSE,
                   visited |-> <<sourcePath>> \o one.visited]

CopyDirectory(f, source, target, ord) ==
    IF CanReadDir(f, source)
    THEN CopyEntries(f, source, target, ReadDir(f, source, ord), ord)
    ELSE [fs |-> f, ok |-> FALSE, visited |-> <<>>]

----------------------------------------------------------------------------
(* copyContext(sourceContextPath, targetContextPath): rm of the target     *)
(* with whatever it raises ignored, ensureDirectory, copyDirectory.        *)

RemoveTarget(f, targetContextPath) == Rm(f, targetContextPath).fs

CopyContextResult(f, sourceContextPath, targetContextPath, ord) ==
    LET cleared == RemoveTarget(f, targetContextPath)
        made == EnsureDirectory(cleared, targetContextPath)
    IN  IF made.ok
        THEN CopyDirectory(made.fs, sourceContextPath, targetContextPath, ord)
        ELSE [fs |-> made.fs, ok |-> FALSE, visited |-> <<>>]

----------------------------------------------------------------------------
(* getDirectorySize(path): the sizes of the entries in readdir order; a    *)
(* readdir or stat that raises ends the loop of that directory, and the    *)
(* size summed so far is returned.  stat follows a link, so it raises on a *)
(* dangling one.                                                           *)

RECURSIVE GetDirectorySize(_, _, _), SizeEntries(_, _, _, _, _)

SizeEntries(f, path, entries, ord, size) ==
    IF entries = <<>>
    THEN [size |-> size, threw |-> FALSE]
    ELSE LET entry == Head(entries)
             fullPath == Append(path, entry.name)
         IN  IF entry.isDirectory
             THEN LET sub == GetDirectorySize(f, fullPath, ord)
                  IN  IF sub.threw
                      THEN [size |-> size, threw |-> TRUE]
                      ELSE SizeEntries(f, path, Tail(entries), ord, size + sub.size)
             ELSE IF f[fullPath].kind = "file"
                  THEN SizeEntries(f, path, Tail(entries), ord,
                                   size + Len(f[fullPath].data))
                  ELSE [size |-> size, threw |-> TRUE]

\* getDirectorySize without its catch: what it raises reaches the caller.
GetDirectorySizeRethrows(f, path, ord) ==
    IF CanReadDir(f, path)
    THEN SizeEntries(f, path, ReadDir(f, path, ord), ord, 0)
    ELSE [size |-> 0, threw |-> TRUE]

\* The try block of getDirectorySize; its catch keeps the size summed so far.
GetDirectorySize(f, path, ord) ==
    LET try == IF CanReadDir(f, path)
               THEN SizeEntries(f, path, ReadDir(f, path, ord), ord, 0)
               ELSE [size |-> 0, threw |-> TRUE]
    IN  [size |-> try.size, threw |-> FALSE]

\* getContextSize(contextPath): 0 when getDirectorySize raises.
GetContextSizeResult(f, contextPath, ord) ==
    LET got == GetDirectorySize(f, contextPath, ord)
    IN  [value |-> IF got.threw THEN 0 ELSE got.size, raised |-> FALSE]

----------------------------------------------------------------------------
(* The directories the calls are made on, and the trees a run starts from. *)

Base == <<"base">>

Sess == <<"sess">>

Nested == <<"base", "sub">>

CtxPaths == {Base, Sess, Nested}

RootFs == <<>> :> Dir(TRUE, TRUE)

\* a.txt of 10 bytes and sub/b.txt of 20 bytes.
SourceFiles(subReadable) ==
    (Base :> Dir(TRUE, TRUE))
    @@ (<<"base", "a.txt">> :> File(Bytes(10, 0), TRUE))
    @@ (Nested :> Dir(subReadable, TRUE))
    @@ (<<"base", "sub", "b.txt">> :> File(Bytes(20, 0), TRUE))

SourceShapes ==
    { RootFs,
      RootFs @@ (Base :> Dir(TRUE, TRUE)),
      RootFs @@ (Base :> Dir(TRUE, TRUE))
             @@ (<<"base", "a.txt">> :> File(Bytes(10, 0), TRUE)),
      RootFs @@ SourceFiles(TRUE),
      RootFs @@ SourceFiles(FALSE),
      RootFs @@ SourceFiles(TRUE) @@ (<<"base", "lock">> :> Link) }

\* What a run finds at the session path: nothing, a stale writable tree, or
\* a stale tree in a directory without write permission.
TargetShapes ==
    { RootFs,
      RootFs @@ (Sess :> Dir(TRUE, TRUE))
             @@ (<<"sess", "b.txt">> :> File(Bytes(5, 1), TRUE)),
      RootFs @@ (Sess :> Dir(TRUE, FALSE))
             @@ (<<"sess", "a.txt">> :> File(Bytes(10, 1), TRUE))
             @@ (<<"sess", "b.txt">> :> File(Bytes(5, 1), TRUE)) }

InitFs == {s @@ t : s \in SourceShapes, t \in TargetShapes}

----------------------------------------------------------------------------
(* The record of the last call: what was called, on what, what the file    *)
(* system and the manager were before it, and what came of it.             *)

NoCall ==
    [op |-> "none", path |-> <<>>, target |-> <<>>, ord |-> NameOrder,
     ok |-> TRUE, value |-> 0, pre |-> RootFs,
     held |-> 0, fault |-> "none", ctx |-> 0, trace |-> <<>>, visited |-> <<>>]

----------------------------------------------------------------------------
(* The calls on the context store.                                         *)

CopyContext(sourceContextPath, targetContextPath, ord) ==
    LET res == CopyContextResult(fs, sourceContextPath, targetContextPath, ord)
    IN  /\ copies < MaxCopies
        /\ copies' = copies + 1
        /\ fs' = res.fs
        /\ last' = [NoCall EXCEPT !.op = "copyContext",
                                  !.path = sourceContextPath,
                                  !.target = targetContextPath,
                                  !.ord = ord, !.ok = res.ok, !.pre = fs,
                                  !.visited = res.visited]
        /\ UNCHANGED <<browser, handles>>

GetContextSize(contextPath, ord) ==
    LET res == GetContextSizeResult(fs, contextPath, ord)
    IN  /\ last' = [NoCall EXCEPT !.op = "getContextSize", !.path = contextPath,
                                  !.ord = ord, !.ok = ~res.raised,
                                  !.value = res.value, !.pre = fs]
        /\ UNCHANGED <<fs, browser, handles, copies>>

InitFsSpec ==
    /\ fs \in InitFs
    /\ browser = 0
    /\ handles = <<>>
    /\ copies = 0
    /\ last = NoCall

NextFs ==
    \/ \E s \in CtxPaths, t \in CtxPaths, ord \in DirOrders : CopyContext(s, t, ord)
    \/ \E p \in CtxPaths, ord \in DirOrders : GetContextSize(p, ord)

SpecFs == InitFsSpec /\ [][NextFs]_vars

TypeFs == WellFormed(fs)

----------------------------------------------------------------------------
(* The driver.  A handle is a browser (chromium.launch) or a persistent    *)
(* context (chromium.launchPersistentContext); it is open until it is      *)
(* closed.  `by` is the call that launched it, `returned` whether the call *)
(* gave it to its caller.  A launch of a persistent context, the creation  *)
(* of a page, a navigation and the wait for a response can each raise;     *)
(* `fault` is the one that does in a call.  A trace lists the driver calls *)
(* a call of the manager made, and which of them raised.                   *)

Faults == {"none", "launchPersistentContext", "newPage", "goto", "waitForResponse"}

Launch(h, kind, by) ==
    Append(h, [kind |-> kind, open |-> TRUE, returned |-> FALSE, by |-> by])

Close(h, i) == [h EXCEPT ![i].open = FALSE]

Step(call, raised) == [call |-> call, raised |-> raised]

\* `if (this.browser) await this.browser.close()`.
CloseBrowser(b, h) ==
    IF b # 0
    THEN [handles |-> Close(h, b), trace |-> <<Step("browser.close", FALSE)>>]
    ELSE [handles |-> h, trace |-> <<>>]

\* initialize(): the new browser replaces the one the field holds.
InitializeResult(b, h) ==
    LET launched == Launch(h, "browser", "initialize")
    IN  [browser |-> Len(launched), handles |-> launched,
         trace |-> <<Step("chromium.launch", FALSE)>>]

\* cleanup(): closes the browser of the field, if any, and clears the field.
CleanupResult(b, h) ==
    LET closed == CloseBrowser(b, h)
    IN  [browser |-> 0, handles |-> closed.handles, trace |-> closed.trace]

\* The wait for a response of createBaseContext, in a try of its own: the
\* catch logs and goes on.
AssetWaitRaises(fault) ==
    [trace |-> <<Step("waitForResponse", fault = "waitForResponse")>>,
     raised |-> fault = "waitForResponse"]

AssetWait(fault) ==
    [trace |-> <<Step("waitForResponse", fault = "waitForResponse")>>,
     raised |-> FALSE]

\* The try block of createBaseContext: newPage, goto, waitForTimeout and the
\* wait for a response; the first call that raises ends it.
BaseContextBody(fault) ==
    IF fault = "newPage"
    THEN [trace |-> <<Step("newPage", TRUE)>>, raised |-> TRUE]
    ELSE IF fault = "goto"
    THEN [trace |-> <<Step("newPage", FALSE), Step("goto", TRUE)>>, raised |-> TRUE]
    ELSE LET wait == AssetWait(fault)
         IN  [trace |-> <<Step("newPage", FALSE), Step("goto", FALSE),
                          Step("waitForTimeout", FALSE)>> \o wait.trace,
              raised |-> wait.raised]

CreateBaseContextResult(f, b, h, contextPath, fault) ==
    LET made == EnsureDirectory(f, contextPath)
        closed == CloseBrowser(b, h)
        opened == Launch(closed.handles, "persistent", "createBaseContext")
        context == Len(opened)
        body == BaseContextBody(fault)
        finally == Launch(Close(opened, context), "browser", "createBaseContext")
    IN  IF ~made.ok
        THEN [fs |-> made.fs, browser |-> b, handles |-> h, ok |-> FALSE, ctx |-> 0,
              trace |-> <<Step("ensureDirectory", TRUE)>>]
        ELSE IF fault = "launchPersistentContext"
        THEN [fs |-> made.fs, browser |-> b, handles |-> closed.handles,
              ok |-> FALSE, ctx |-> 0,
              trace |-> <<Step("ensureDirectory", FALSE)>> \o closed.trace
                        \o <<Step("launchPersistentContext", TRUE)>>]
        ELSE [fs |-> made.fs, browser |-> Len(finally), handles |-> finally,
              ok |-> ~body.raised, ctx |-> context,
              trace |-> <<Step("ensureDirectory", FALSE)>> \o closed.trace
                        \o <<Step("launchPersistentContext", FALSE)>> \o body.trace
                        \o <<Step("context.close", FALSE), Step("chromium.launch", FALSE)>>]

\* The `if (url)` block of useExistingContext: newPage and goto.
ExistingContextBody(hasUrl, fault) ==
    IF ~hasUrl
    THEN [trace |-> <<>>, raised |-> FALSE]
    ELSE IF fault = "newPage"
    THEN [trace |-> <<Step("newPage", TRUE)>>, raised |-> TRUE]
    ELSE [trace |-> <<Step("newPage", FALSE), Step("goto", fault = "goto")>>,
          raised |-> fault = "goto"]

\* useExistingContext without the close of the browser it holds.
UseExistingContextKeepsBrowser(b, h, hasUrl, fault) ==
    LET opened == Launch(h, "persistent", "useExistingContext")
        context == Len(opened)
        body == ExistingContextBody(hasUrl, fault)
        launched == Launch([opened EXCEPT ![context].returned = TRUE],
                           "browser", "useExistingContext")
    IN  IF fault = "launchPersistentContext"
        THEN [browser |-> b, handles |-> h, ok |-> FALSE, ctx |-> 0,
              trace |-> <<Step("launchPersistentContext", TRUE)>>]
        ELSE IF body.raised
        THEN [browser |-> b, handles |-> opened, ok |-> FALSE, ctx |-> context,
              trace |-> <<Step("launchPersistentContext", FALSE)>> \o body.trace]
        ELSE [browser |-> Len(launched), handles |-> launched, ok |-> TRUE,
              ctx |-> context,
              trace |-> <<Step("launchPersistentContext", FALSE)>> \o body.trace
                        \o <<Step("chromium.launch", FALSE)>>]

UseExistingContextResult(b, h, hasUrl, fault) ==
    LET closed == CloseBrowser(b, h)
        opened == Launch(closed.handles, "persistent", "useExistingContext")
        context == Len(opened)
        body == ExistingContextBody(hasUrl, fault)
        launched == Launch([opened EXCEPT ![context].returned = TRUE],
                           "browser", "useExistingContext")
    IN  IF fault = "launchPersistentContext"
        THEN [browser |-> b, handles |-> closed.handles, ok |-> FALSE, ctx |-> 0,
              trace |-> closed.trace \o <<Step("launchPersistentContext", TRUE)>>]
        ELSE IF body.raised
        THEN [browser |-> b, handles |-> opened, ok |-> FALSE, ctx |-> context,
              trace |-> closed.trace \o <<Step("launchPersistentContext", FALSE)>>
                        \o body.trace]
        ELSE [browser |-> Len(launched), handles |-> launched, ok |-> TRUE,
              ctx |-> context,
              trace |-> closed.trace \o <<Step("launchPersistentContext", FALSE)>>
                        \o body.trace \o <<Step("chromium.launch", FALSE)>>]

----------------------------------------------------------------------------
(* The calls on the driver lifecycle, and the caller's close of a context  *)
(* that useExistingContext returned to it.                                 *)

Initialize ==
    LET res == InitializeResult(browser, handles)
    IN  /\ Len(handles) + 1 <= MaxLaunches
        /\ browser' = res.browser
        /\ handles' = res.handles
        /\ last' = [NoCall EXCEPT !.op = "initialize", !.held = browser,
                                  !.pre = fs, !.trace = res.trace]
        /\ UNCHANGED <<fs, copies>>

Cleanup ==
    LET res == CleanupResult(browser, handles)
    IN  /\ browser' = res.browser
        /\ handles' = res.handles
        /\ last' = [NoCall EXCEPT !.op = "cleanup", !.held = browser,
                                  !.pre = fs, !.trace = res.trace]
        /\ UNCHANGED <<fs, copies>>

CreateBaseContext(contextPath, fault) ==
    LET res == CreateBaseContextResult(fs, browser, handles, contextPath, fault)
    IN  /\ Len(handles) + 2 <= MaxLaunches
        /\ fs' = res.fs
        /\ browser' = res.browser
        /\ handles' = res.handles
        /\ last' = [NoCall EXCEPT !.op = "createBaseContext", !.path = contextPath,
                                  !.held = browser, !.fault = fault, !.pre = fs,
                                  !.ok = res.ok, !.ctx = res.ctx, !.trace = res.trace]
        /\ UNCHANGED copies

UseExistingContext(contextPath, hasUrl, fault) ==
    LET res == UseExistingContextResult(browser, handles, hasUrl, fault)
    IN  /\ Len(handles) + 2 <= MaxLaunches
        /\ browser' = res.browser
        /\ handles' = res.handles
        /\ last' = [NoCall EXCEPT !.op = "useExistingContext", !.path = contextPath,
                                  !.held = browser, !.fault = fault, !.pre = fs,
                                  !.ok = res.ok, !.ctx = res.ctx, !.trace = res.trace]
        /\ UNCHANGED <<fs, copies>>

\* `await context.close()` of the caller.
CloseContext(i) ==
    /\ handles[i].kind = "persistent" /\ handles[i].returned /\ handles[i].open
    /\ handles' = Close(handles, i)
    /\ last' = [NoCall EXCEPT !.op = "context.close", !.held = browser,
                              !.pre = fs, !.ctx = i]
    /\ UNCHANGED <<fs, browser, copies>>

\* A run starts with no directory at the base path, or with the base
\* directory and a dangling link where the session directory would be.
LifecycleFs ==
    { RootFs,
      RootFs @@ (Base :> Dir(TRUE, TRUE)) @@ (Sess :> Link) }

Init ==
    /\ fs \in LifecycleFs
    /\ browser = 0
    /\ handles = <<>>
    /\ copies = 0
    /\ last = NoCall

Next ==
    \/ Initialize
    \/ Cleanup
    \/ \E p \in {Base, Sess}, fault \in Faults : CreateBaseContext(p, fault)
    \/ \E p \in {Base, Sess}, hasUrl \in BOOLEAN, fault \in Faults :
           UseExistingContext(p, hasUrl, fault)
    \/ \E i \in DOMAIN handles : CloseContext(i)

Spec == Init /\ [][Next]_vars

TypeOK ==
    /\ WellFormed(fs)
    /\ browser \in 0..Len(handles)
    /\ Len(handles) <= MaxLaunches

----------------------------------------------------------------------------
(* Claims about copyContext.                                               *)

Copied == last.op = "copyContext"

CopiedOk == Copied /\ last.ok

\* The tree at p, the node at p included.
TreeAt(f, p) == IF Exists(f, p) THEN <<f[p], SubTree(f, p)>> ELSE <<>>

\* C1: after copyContext(S, T) has completed successfully, every regular
\* file that S held when the call was made is at the same relative path under
\* T, with the same bytes.
C1_CopyDuplicatesEveryFile ==
    CopiedOk =>
        \A rel \in DOMAIN SubTree(last.pre, last.path) :
            LET was == SubTree(last.pre, last.path)[rel]
                now == last.target \o rel
            IN  was.kind = "file" =>
                    /\ Exists(fs, now)
                    /\ fs[now].kind = "file"
                    /\ fs[now].data = was.data

\* C2: after copyContext(S, T) has completed, getContextSize(S) and
\* getContextSize(T) return equal byte counts.
C2_CopyPreservesSize ==
    CopiedOk =>
        \A ord \in DirOrders :
            GetContextSizeResult(fs, last.path, ord).value
                = GetContextSizeResult(fs, last.target, ord).value

\* C3: copyContext replaces the target and is idempotent: the target after
\* one copyContext(S, T) is the target after a second one, and it holds no
\* entry that S does not hold.
C3_CopyReplacesAndIsIdempotent ==
    CopiedOk =>
        /\ \A ord \in DirOrders :
               LET again == CopyContextResult(fs, last.path, last.target, ord)
               IN  again.ok /\ SubTree(again.fs, last.target) = SubTree(fs, last.target)
        /\ DOMAIN SubTree(fs, last.target) \subseteq DOMAIN SubTree(last.pre, last.path)

\* C4: copyContext(S, T) creates, removes and changes nothing of the source
\* tree, whether it succeeds or fails.
C4_CopyLeavesSourceUntouched ==
    Copied => TreeAt(fs, last.path) = TreeAt(last.pre, last.path)

----------------------------------------------------------------------------
(* Claims about getContextSize.                                            *)

Measured == last.op = "getContextSize"

RECURSIVE SumBytes(_, _)
SumBytes(f, S) ==
    IF S = {} THEN 0
    ELSE LET q == CHOOSE x \in S : TRUE
         IN  Len(f[q].data) + SumBytes(f, S \ {q})

FilesUnder(f, p) == {q \in DOMAIN f : Under(p, q) /\ f[q].kind = "file"}

\* A readdir or a stat raises somewhere in the traversal of p: p is no
\* readable directory, or something below it is an unreadable directory or a
\* dangling link.
TraversalRaises(f, p) ==
    \/ ~CanReadDir(f, p)
    \/ \E q \in DOMAIN f :
           /\ Under(p, q)
           /\ \/ f[q].kind = "link"
              \/ f[q].kind = "dir" /\ ~f[q].r

Rank(ord, n) == CHOOSE i \in 1..Len(ord) : ord[i] = n

\* The entry e is reached by the loop of its directory: the directory is
\* readable and no dangling link is listed before e.
Reached(f, ord, e) ==
    /\ f[Parent(e)].r
    /\ \A s \in Children(f, Parent(e)) :
           f[s].kind = "link" => Rank(ord, s[Len(s)]) > Rank(ord, e[Len(e)])

\* The files of p the traversal gets to: every entry on the way down from p
\* is reached.
Counted(f, p, ord) ==
    {q \in FilesUnder(f, p) :
        \A e \in DOMAIN f : (Under(p, e) /\ IsPrefix(e, q)) => Reached(f, ord, e)}

\* C8 as stated: getContextSize never raises; it returns 0 if the path does
\* not exist or anything raises during the traversal, and the sum of the
\* sizes of all regular files under the path otherwise.
C8_SizeIsZeroOnAnyError ==
    Measured =>
        /\ last.ok
        /\ last.value = IF TraversalRaises(fs, last.path)
                        THEN 0
                        ELSE SumBytes(fs, FilesUnder(fs, last.path))

\* C8 amended: getContextSize never raises; it returns 0 if the path is no
\* readable directory; a readdir or stat that raises ends the traversal of
\* the directory it raises in only, so the result is the sum of the sizes of
\* the regular files reached, which is the sum over all of them when nothing
\* raises.
C8_SizeIsSumOfReachedFiles ==
    Measured =>
        /\ last.ok
        /\ ~CanReadDir(fs, last.path) => last.value = 0
        /\ IsDir(fs, last.path) =>
               last.value = SumBytes(fs, Counted(fs, last.path, last.ord))
        /\ ~TraversalRaises(fs, last.path) =>
               last.value = SumBytes(fs, FilesUnder(fs, last.path))

\* A traversal in which something raised and that yet returned a size.
C8_Witness ==
    /\ Measured
    /\ TraversalRaises(fs, last.path)
    /\ last.value > 0

----------------------------------------------------------------------------
(* Claims about the driver lifecycle.                                      *)

OpenPersistent == {i \in DOMAIN handles : handles[i].kind = "persistent" /\ handles[i].open}

OpenHandles == {i \in DOMAIN handles : handles[i].open}

Calls(trace) == [i \in DOMAIN trace |-> trace[i].call]

Raised(trace, call) == \E i \in DOMAIN trace : trace[i].call = call /\ trace[i].raised

Made(trace, call) == \E i \in DOMAIN trace : trace[i].call = call

\* The call launched a persistent context after closing the browser the
\* manager held: the close comes first in its trace, and that browser is
\* closed.
ClosedAmbientFirst ==
    (last.ctx # 0 /\ last.held # 0) =>
        /\ ~handles[last.held].open
        /\ \E i, j \in DOMAIN last.trace :
               /\ i < j
               /\ last.trace[i].call = "browser.close"
               /\ last.trace[j].call = "launchPersistentContext"

OpenedPersistent == last.op \in {"createBaseContext", "useExistingContext"}

\* C5 as stated: at most one persistent context launched by the manager is
\* open at a time, and a call that opens one first closes the browser the
\* manager holds.
C5_AtMostOnePersistentOpen ==
    /\ Cardinality(OpenPersistent) <= 1
    /\ OpenedPersistent => ClosedAmbientFirst

\* C5 amended: no persistent context launched by createBaseContext is open
\* once the call is over; the ones launched by useExistingContext stay open
\* until they are closed from outside, so several can be open at a time; a
\* call that opens a persistent context first closes the browser the manager
\* holds.
C5_OnlyUsedContextsStayOpen ==
    /\ \A i \in OpenPersistent : handles[i].by = "useExistingContext"
    /\ OpenedPersistent => ClosedAmbientFirst

\* A second persistent context was opened while one was open and the manager
\* held a browser.
C5_Witness ==
    /\ last.op = "useExistingContext"
    /\ last.ok
    /\ last.held # 0
    /\ Cardinality(OpenPersistent) >= 2

\* C6: initialize() closes the browser the manager holds before the new one
\* replaces it, so that after initialize() calls followed by one cleanup()
\* no browser launched by the manager is open.
C6_InitializeClosesPrior ==
    /\ (last.op = "initialize" /\ last.held # 0) => ~handles[last.held].open
    /\ (last.op = "cleanup" /\ \A i \in DOMAIN handles : handles[i].by = "initialize")
           => OpenHandles = {}

\* C7: on every exit of a createBaseContext that an initialized manager made
\* and that got to the launch of the persistent context, whether the launch,
\* newPage or goto raised or nothing did, the persistent context it launched
\* is closed and the manager holds an open browser.
C7_BaseContextRestoresDriver ==
    (/\ last.op = "createBaseContext"
     /\ last.held # 0
     /\ Made(last.trace, "launchPersistentContext")) =>
        /\ last.ctx # 0 => ~handles[last.ctx].open
        /\ browser # 0
        /\ handles[browser].open
        /\ handles[browser].kind = "browser"

\* C9: in createBaseContext a waitForResponse that raises is swallowed and
\* the call completes, a goto that raises ends the call with the error, and
\* no driver call is made twice.
C9_AssetWaitSwallowedGotoFatal ==
    last.op = "createBaseContext" =>
        /\ Raised(last.trace, "waitForResponse") => last.ok
        /\ Raised(last.trace, "goto") =>
               ~last.ok /\ ~Made(last.trace, "waitForResponse")
        /\ \A i, j \in DOMAIN last.trace :
               last.trace[i].call = last.trace[j].call => i = j

\* A createBaseContext whose waitForResponse raised.
C9_Witness ==
    /\ last.op = "createBaseContext"
    /\ Raised(last.trace, "waitForResponse")

\* C10: a persistent context launched by useExistingContext is returned to
\* the caller or closed, and the browser field of the manager refers to no
\* closed browser, also when the call fails after the launch.
C10_UsedContextReturnedOrClosed ==
    last.op = "useExistingContext" =>
        /\ last.ctx # 0 => (handles[last.ctx].returned \/ ~handles[last.ctx].open)
        /\ browser # 0 => handles[browser].open

----------------------------------------------------------------------------
(* Where the claims about copyContext fail, and only there.                *)

TargetIsSource == last.path = last.target

TargetCleared == Rm(last.pre, last.target).ok

Disjoint == ~IsPrefix(last.path, last.target) /\ ~IsPrefix(last.target, last.path)

\* The files of the source are all in a target that is not the source.
DuplicatesUnlessSame == TargetIsSource \/ C1_CopyDuplicatesEveryFile

\* The sizes agree whenever the rm of the target removed it.
SizePreservedIfCleared == TargetCleared => C2_CopyPreservesSize

\* The copy replaces and is idempotent whenever the rm of the target removed it.
ReplacesIfCleared == TargetCleared => C3_CopyReplacesAndIsIdempotent

\* The source is untouched when neither path lies within the other.
SourceUntouchedIfDisjoint == Disjoint => C4_CopyLeavesSourceUntouched

----------------------------------------------------------------------------
(* Claims about the termination of copyContext.                            *)

\* What the source held when the copy began: the call has removed the
\* target by then and created nothing yet.
SourceAtCall == {q \in DOMAIN RemoveTarget(last.pre, last.target) : Under(last.path, q)}

\* C11: copyContext(S, T) ends for every source tree and every target, a
\* target equal to the source or inside it included: the copy takes up no
\* more entries than the source holds and none that the call itself created.
C11_CopyVisitsOnlySourceEntries ==
    Copied =>
        /\ Len(last.visited) <= Cardinality(SourceAtCall)
        /\ \A i \in DOMAIN last.visited : last.visited[i] \in SourceAtCall

\* Only a target inside the source makes the copy take up its own entries.
VisitsOnlySourceUnlessInside == Under(last.path, last.target) \/ C11_CopyVisitsOnlySourceEntries

=============================================================================
